---- MODULE Spec2Model ----
(***************************************************************************)
(* A model of @mxweb/classable (src/src/index.ts).                         *)
(*                                                                         *)
(* The library is a frozen object of functions over JavaScript values.     *)
(* The model keeps a heap of the objects those functions read and create   *)
(* (records, arrays, promises, instances, function objects), the promise   *)
(* reactions and the microtask queue of the host, and a log of what each   *)
(* call did: the user callbacks it invoked, the constructors it ran and    *)
(* what it returned or threw.  A client makes up to MaxCalls calls with    *)
(* arguments drawn from the values that exist at that moment, so a result  *)
(* of one call can be the argument of the next.                            *)
(*                                                                         *)
(* Eight specifications share the state and the operations:                *)
(*   Spec         create, from, toResolver, getTarget and the host's       *)
(*                promise steps;                                           *)
(*   ShapeSpec    getTarget, withResolve, wrap, getDescriptor and create;  *)
(*   InspectSpec  is, isAbstract, isResolver, select and the function      *)
(*                select returns, over values of every type;               *)
(*   FailureSpec  create, from and the host's promise steps, with a class  *)
(*                whose constructor and static method throw.               *)
(*   MisuseSpec   create on values of every type;                          *)
(*   RuntimeSpec  create and from with runtimes of every type;             *)
(*   PendingSpec  creates with deferred resolves pending together, and     *)
(*                the host's promise steps;                                *)
(*   ApiSpec      every operation but is and isAbstract, and the host's    *)
(*                promise steps.                                           *)
(***************************************************************************)
EXTENDS Naturals, Sequences, FiniteSets, TLC

VARIABLES heap, reactions, jobs, log

vars == <<heap, reactions, jobs, log>>

(* ------------------------------------------------------------ bounds --- *)

\* Calls of the API the client makes in one run.
MaxCalls == 2

(* ------------------------------------------------------------ values --- *)

\* Every JavaScript value is a string: a primitive, a function that exists
\* before the run (a class or a user callback), or the address of a heap
\* object, "o1", "o2", ...
Ref(i) == "o" \o ToString(i)

Undefined == "undefined"
Null == "null"
\* A caller's runtime context: an opaque value with no own properties the
\* library looks at.
Ctx == "ctx"

\* What a rejected computation or a failed construction carries.
ErrE == "E"
CtorError == "CtorError"
TypeError == "TypeError"

\* The classes of the run.  Placeholder is the library's own (index.ts:186);
\* User and Cache are the README's; AnonCompact is the class expression
\* `class{}` as a minifier prints it.
Placeholder == "Placeholder"
User == "User"
Cache == "Cache"
AnonCompact == "AnonCompact"
NativeClasses == {Placeholder, User, Cache, AnonCompact}

\* A class its TypeScript source declares `abstract class BaseService {}`
\* (index.ts:528).  The keyword is TypeScript's alone: the build erases it,
\* and the class the engine runs is `class BaseService {}`.
BaseService == "BaseService"
AbstractClasses == {BaseService}

\* A constructor written as a function declaration, `function Legacy() {}`.
Legacy == "Legacy"
PlainFunctions == {Legacy}

\* A class that fails for its own reasons: its constructor throws whatever
\* it is given, and so does its static method make.
Broken == "Broken"
FailingClasses == {Broken}

\* Every class that exists before the run.
Classes == NativeClasses \cup AbstractClasses \cup FailingClasses

\* The user callbacks of the run, by what they do when called:
\*   rCtx        (ctx) => [ctx, 30]
\*   rAsync      async (ctx) => [...]   a promise the host settles later
\*   rEmpty      () => []               placeholder.resolve (index.ts:198)
\*   selByCtx    (ctx) => ctx === undefined
\*                 ? { method: "version", args: [] }
\*                 : { method: "create", args: [ctx] }
\*   selAsync    async () => ({ method: "create", args: [3600] })
\*   selGetInstance  placeholderInstance.selector (index.ts:286)
\*   pickFirst   (...classes) => [classes[0], []]
\*   pickByEnv   (env, ...loggers) => [loggers[1], []]
\*   pickAsync   async (...classes) => [classes[0], []]
\*   withLogging, withMetrics
\*               (Target) => class extends Target { ... }
\*   noop        () => {}
\*   selMake     () => ({ method: "make", args: [] })
\*   rEcho       async (ctx) => [ctx]   a promise the host settles later
UserFunctions ==
  {"rCtx", "rAsync", "rEmpty", "selByCtx", "selAsync", "selGetInstance",
   "pickFirst", "pickByEnv", "pickAsync", "withLogging", "withMetrics", "noop",
   "selMake", "rEcho"}

StaticFunctions == Classes \cup PlainFunctions \cup UserFunctions

\* Function.prototype.toString of a function that exists before the run, as
\* its leading tokens.
SrcText(fn) ==
  CASE fn = Placeholder -> <<"class", " ", "Placeholder", " ", "{">>
    [] fn = User -> <<"class", " ", "User", " ", "{">>
    [] fn = Cache -> <<"class", " ", "Cache", " ", "{">>
    [] fn = AnonCompact -> <<"class", "{">>
    [] fn = BaseService -> <<"class", " ", "BaseService", " ", "{">>
    [] fn = Broken -> <<"class", " ", "Broken", " ", "{">>
    [] fn = Legacy -> <<"function", " ", "Legacy", "(">>
    [] fn \in {"rAsync", "selAsync", "pickAsync", "rEcho"} -> <<"async", " ", "(">>
    [] OTHER -> <<"(">>

\* fn.name of a function that exists before the run: a declared class or
\* function has its name, a class expression and an arrow function passed as
\* they are written have the empty name.
SrcName(fn) == IF fn \in (Classes \ {AnonCompact}) \cup PlainFunctions THEN fn ELSE ""

Whitespace == {" ", "\t", "\n"}

(* -------------------------------------------------------------- heap --- *)

\* A heap object.  kind is "record" (a plain object: props), "array"
\* (elems), "promise" (state, val, made by cls), "instance" (cls, and the arguments its
\* constructor got in elems), "function" (an arrow function created during
\* the run; cls names its body, val is the value it closes over) or "class"
\* (a class expression `class extends Target { ... }` evaluated during the
\* run; cls names the wrapper that evaluated it, val is Target).
NoProps == [p \in {} |-> Undefined]

Obj(kind, props, elems, cls, state, val) ==
  [kind |-> kind, props |-> props, elems |-> elems, cls |-> cls,
   state |-> state, val |-> val]

RecordObj(props) == Obj("record", props, <<>>, "", "", Undefined)
ArrayObj(elems) == Obj("array", NoProps, elems, "", "", Undefined)
InstanceObj(cls, args) == Obj("instance", NoProps, args, cls, "", Undefined)
\* A promise remembers in cls what made it: the async callback whose
\* completion it stands for, or "then" for one derived by Promise.then.
PromiseObj(origin, state, val) == Obj("promise", NoProps, <<>>, origin, state, val)
FunctionObj(body) == Obj("function", NoProps, <<>>, body, "", Undefined)
ClosureObj(body, captured) == Obj("function", NoProps, <<>>, body, "", captured)
ClassObj(wrapper, parent) == Obj("class", NoProps, <<>>, wrapper, "", parent)

IsRef(h, v) == v \in DOMAIN h

\* The store an operation runs in: the heap, the promise reactions, the
\* microtask queue and the events logged so far.
Store(h, r, j, l) == [heap |-> h, reactions |-> r, jobs |-> j, log |-> l]

\* The outcome of an operation: the store it leaves, whether it returned
\* (ok) or threw, and the value returned or thrown.
Result(s, ok, val) == [s |-> s, ok |-> ok, val |-> val]
Return(s, val) == Result(s, TRUE, val)
Throw(s, err) == Result(s, FALSE, err)

\* A new object: its address is the next one.
Alloc(s, obj) ==
  LET a == Ref(Cardinality(DOMAIN s.heap) + 1)
  IN  Return([s EXCEPT !.heap = (a :> obj) @@ s.heap], a)

\* One event of the log.  ev is "call" (an API call: f the operation, args
\* the arguments as passed, ok/res what it returned or threw), "invoke" (a
\* user callback f called with args), "new" (the constructor f run with
\* args), "static" (the static method m of f called with args), "settle" (the
\* host settled promise f) or "job" (a promise reaction ran).  call is the
\* number of the API call the event belongs to.
Event(ev, call, f, m, args, ok, res) ==
  [ev |-> ev, call |-> call, f |-> f, m |-> m, args |-> args, ok |-> ok,
   res |-> res]

Emit(s, e) == [s EXCEPT !.log = Append(@, e)]

(* ------------------------------------------------- the host language --- *)

\* typeof v
TypeOf(h, v) ==
  IF IsRef(h, v)
    THEN IF h[v].kind \in {"function", "class"} THEN "function" ELSE "object"
  ELSE IF v \in StaticFunctions THEN "function"
  ELSE IF v = Undefined THEN "undefined"
  ELSE IF v \in {Null, Ctx} THEN "object"
  ELSE "primitive"

\* Function.prototype.toString.call(fn), for a function.
FunctionToString(h, fn) ==
  IF ~IsRef(h, fn) THEN SrcText(fn)
  ELSE IF h[fn].kind = "class" THEN <<"class", " ", "extends", " ", "Target", " ", "{">>
  ELSE <<"(", ")", " ", "=>">>

\* fn.name, for a function.
NameOf(h, fn) == IF IsRef(h, fn) THEN "" ELSE SrcName(fn)

\* Object.prototype.hasOwnProperty.call(obj, prop), for a non-null object.
OwnProperty(h, obj, prop) ==
  IsRef(h, obj) /\ h[obj].kind = "record" /\ prop \in DOMAIN h[obj].props

\* obj.prop
Get(h, obj, prop) ==
  IF OwnProperty(h, obj, prop) THEN h[obj].props[prop] ELSE Undefined

\* Whether `new v(...)` reaches a constructor: classes and function
\* declarations do, arrow functions and everything that is not a function
\* do not.
IsConstructor(h, v) ==
  \/ v \in Classes \cup PlainFunctions
  \/ IsRef(h, v) /\ h[v].kind = "class"

\* The class a class expression of the run extends, at the end of the chain
\* of `extends`: the class whose constructor its instances are built by.
RECURSIVE BaseOf(_, _)
BaseOf(h, c) ==
  IF IsRef(h, c) /\ h[c].kind = "class" THEN BaseOf(h, h[c].val) ELSE c

\* Whether the constructor of class c throws for these arguments: Cache
\* requires its ttl, Broken throws always.
CtorThrows(c, args) == (c = Cache /\ args = <<>>) \/ c = Broken

(* --------------------------------------------------- user callbacks --- *)

\* The body of a function value: a callback that exists before the run is
\* its own name, an arrow function created during the run names its body.
BodyOf(h, fn) == IF IsRef(h, fn) THEN h[fn].cls ELSE fn

\* { method, args } as a selector builds it.
MethodSelection(s, method, elems) ==
  LET a == Alloc(s, ArrayObj(elems))
  IN  Alloc(a.s, RecordObj([p \in {"method", "args"} |->
                              IF p = "method" THEN method ELSE a.val]))

\* [first, []] as a ClassableSelector builds it: the chosen classable and
\* its argument list.
SelectedPair(s, first) ==
  LET a == Alloc(s, ArrayObj(<<>>))
  IN  Alloc(a.s, ArrayObj(<<first, a.val>>))

\* args[i], undefined beyond the end.
ArgAt(args, i) == IF i \in DOMAIN args THEN args[i] ELSE Undefined

\* What calling fn(...args) does, for each callback of the run.  Calling a
\* class without `new`, or something that is no function, is a TypeError.
RECURSIVE Apply(_, _, _)
Apply(s, fn, args) ==
  LET body == BodyOf(s.heap, fn)
  IN  IF \/ TypeOf(s.heap, fn) # "function"
         \/ fn \in Classes
         \/ IsRef(s.heap, fn) /\ s.heap[fn].kind = "class"
        THEN Throw(s, TypeError)
      ELSE CASE body = "rCtx" ->
                  Alloc(s, ArrayObj(<<IF args = <<>> THEN Undefined ELSE args[1], "n30">>))
             [] body = "rEmpty" -> Alloc(s, ArrayObj(<<>>))
             [] body \in {"rAsync", "selAsync"} ->
                  Alloc(s, PromiseObj(body, "pending", Undefined))
             [] body = "selByCtx" ->
                  IF args = <<>> \/ args[1] = Undefined
                    THEN MethodSelection(s, "version", <<>>)
                    ELSE MethodSelection(s, "create", <<args[1]>>)
             [] body = "selGetInstance" -> MethodSelection(s, "getInstance", <<>>)
             [] body = "selMake" -> MethodSelection(s, "make", <<>>)
             [] body = "rEcho" ->
                  Alloc(s, Obj("promise", NoProps, args, body, "pending", Undefined))
             [] body = "pickFirst" -> SelectedPair(s, ArgAt(args, 1))
             [] body = "pickByEnv" -> SelectedPair(s, ArgAt(args, 3))
             [] body = "pickAsync" ->
                  Alloc(s, PromiseObj(body, "pending", Undefined))
             [] body \in {"withLogging", "withMetrics"} ->
                  IF IsConstructor(s.heap, ArgAt(args, 1))
                    THEN Alloc(s, ClassObj(body, ArgAt(args, 1)))
                    ELSE Throw(s, TypeError)
             [] body = "forward" -> Apply(s, s.heap[fn].val, args)
             [] OTHER -> Return(s, Undefined)

\* A call of a user callback by the library, logged with what it was given
\* and what it gave back.
Invoke(s, call, fn, args) ==
  LET r == Apply(s, fn, args)
  IN  Result(Emit(r.s, Event("invoke", call, fn, "", args, r.ok, r.val)),
             r.ok, r.val)

\* Construct that keeps one instance a class: the instance of target there
\* is already, if any, is handed back.
Construct_Singleton(s, call, target, args) ==
  LET made == {a \in DOMAIN s.heap :
                 s.heap[a].kind = "instance" /\ s.heap[a].cls = target}
  IN  IF ~IsConstructor(s.heap, target) THEN Throw(s, TypeError)
      ELSE IF CtorThrows(BaseOf(s.heap, target), args)
        THEN Throw(Emit(s, Event("new", call, target, "", args, FALSE, CtorError)),
                   CtorError)
      ELSE IF made # {}
        THEN LET a == CHOOSE a \in made : TRUE
             IN  Return(Emit(s, Event("new", call, target, "", args, TRUE, a)), a)
      ELSE LET a == Alloc(s, InstanceObj(target, args))
           IN  Return(Emit(a.s, Event("new", call, target, "", args, TRUE, a.val)),
                      a.val)

\* new target(...args): a TypeError when target is no constructor, else the
\* constructor runs (logged) and either throws or yields a fresh instance.
Construct(s, call, target, args) ==
  IF ~IsConstructor(s.heap, target) THEN Throw(s, TypeError)
  ELSE IF CtorThrows(BaseOf(s.heap, target), args)
    THEN Throw(Emit(s, Event("new", call, target, "", args, FALSE, CtorError)),
               CtorError)
  ELSE LET a == Alloc(s, InstanceObj(target, args))
       IN  Return(Emit(a.s, Event("new", call, target, "", args, TRUE, a.val)),
                  a.val)

\* Whether ...v can be spread: arrays can.
Iterable(h, v) == IsRef(h, v) /\ h[v].kind = "array"
Spread(h, v) == h[v].elems

\* v instanceof Promise
InstanceOfPromise(h, v) == IsRef(h, v) /\ h[v].kind = "promise"

\* The static methods of the classes of the run.
StaticMethods(c) ==
  CASE c = Placeholder -> {"getInstance"}
    [] c = Cache -> {"create", "version"}
    [] c = Broken -> {"make"}
    [] OTHER -> {}

\* target[method](...args), logged.  Placeholder.getInstance is
\* index.ts:187; Cache.create(ttl) is the README's `new Cache(ttl)`;
\* Cache.version() returns a number; Broken.make() throws E.
StaticCall(s, call, target, method, args) ==
  IF method \notin StaticMethods(target) THEN Throw(s, TypeError)
  ELSE LET r == IF method = "version" THEN Return(s, "n42")
                ELSE IF method = "make" THEN Throw(s, ErrE)
                ELSE Construct(s, call, target, args)
       IN  Result(Emit(r.s, Event("static", call, target, method, args, r.ok, r.val)),
                  r.ok, r.val)

(* ------------------------------------------------------ the library --- *)

\* /^class\s/.test(text)
MatchesClass(text) ==
  Len(text) >= 2 /\ text[1] = "class" /\ text[2] \in Whitespace

\* classable.is
is(h, fn) ==
  TypeOf(h, fn) = "function" /\ MatchesClass(FunctionToString(h, fn))

\* hasOwnProperty(obj, prop)
hasOwnProperty(h, obj, prop) ==
  TypeOf(h, obj) = "object" /\ obj # Null /\ OwnProperty(h, obj, prop)

\* /^abstract\s+class\s/.test(text)
MatchesAbstractClass(text) ==
  /\ Len(text) >= 4
  /\ text[1] = "abstract"
  /\ \E n \in 2..(Len(text) - 2) :
       /\ \A k \in 2..n : text[k] \in Whitespace
       /\ text[n + 1] = "class"
       /\ text[n + 2] \in Whitespace

\* classable.isAbstract
isAbstract(h, fn) ==
  TypeOf(h, fn) = "function" /\ MatchesAbstractClass(FunctionToString(h, fn))

\* classable.isResolver
isResolver(h, obj) ==
  /\ hasOwnProperty(h, obj, "target")
  /\ is(h, Get(h, obj, "target"))
  /\ hasOwnProperty(h, obj, "resolve")
  /\ TypeOf(h, Get(h, obj, "resolve")) = "function"

\* toResolver without the isResolver test: every input is wrapped.
toResolver_AlwaysWrap(s, cls) ==
  LET f == Alloc(s, FunctionObj("rEmpty"))
  IN  Alloc(f.s, RecordObj([p \in {"target", "resolve"} |->
                              IF p = "target" THEN cls ELSE f.val]))

\* toResolver returning a copy of a descriptor, { ...cls }, not the
\* descriptor.
toResolver_Copy(s, cls) ==
  IF isResolver(s.heap, cls) THEN Alloc(s, s.heap[cls])
  ELSE LET f == Alloc(s, FunctionObj("rEmpty"))
       IN  Alloc(f.s, RecordObj([p \in {"target", "resolve"} |->
                                   IF p = "target" THEN cls ELSE f.val]))

\* classable.toResolver: a descriptor as it is, anything else wrapped in a
\* new record whose resolve is a new arrow function () => [].
toResolver(s, cls) ==
  IF isResolver(s.heap, cls) THEN Return(s, cls)
  ELSE LET f == Alloc(s, FunctionObj("rEmpty"))
       IN  Alloc(f.s, RecordObj([p \in {"target", "resolve"} |->
                                   IF p = "target" THEN cls ELSE f.val]))

\* getTarget reading the target property of whatever it is given.
getTarget_AlwaysTarget(s, cls) == Return(s, Get(s.heap, cls, "target"))

\* getTarget that hands back what it was given.
getTarget_Identity(s, cls) == Return(s, cls)

\* classable.getTarget
getTarget(s, cls) ==
  IF isResolver(s.heap, cls) THEN Return(s, Get(s.heap, cls, "target"))
  ELSE Return(s, cls)

\* RuntimeArgs with a truthiness test, runtime ? [runtime] : [].
RuntimeArgs_Truthy(runtime) ==
  IF runtime \in {Undefined, Null, "false", "n0", ""} THEN <<>> ELSE <<runtime>>

\* RuntimeArgs without the test: the runtime is always handed on, [runtime].
RuntimeArgs_Always(runtime) == <<runtime>>

\* The arguments resolve and selector are called with:
\* ...(runtime === undefined ? [] : [runtime])
RuntimeArgs(runtime) == IF runtime = Undefined THEN <<>> ELSE <<runtime>>

\* promise.then(onFulfilled) as create uses it: a new pending promise, and
\* the reaction (resolvedArgs) => new cls.target(...resolvedArgs), which
\* waits for the promise or, if that is settled already, is queued at once.
PromiseThen(s, call, promise, cls) ==
  LET d == Alloc(s, PromiseObj("then", "pending", Undefined))
      reaction == [src |-> promise, derived |-> d.val, cls |-> cls, call |-> call]
  IN  IF s.heap[promise].state = "pending"
        THEN Return([d.s EXCEPT !.reactions = Append(@, reaction)], d.val)
        ELSE Return([d.s EXCEPT !.jobs = Append(@, reaction)], d.val)

\* ConstructSpread with the resolved arguments dropped: new target().
ConstructSpread_NoArgs(s, call, target, args) ==
  IF ~Iterable(s.heap, args) THEN Throw(s, TypeError)
  ELSE Construct(s, call, target, <<>>)

\* ConstructSpread with the constructor run a second time.
ConstructSpread_Twice(s, call, target, args) ==
  IF ~Iterable(s.heap, args) THEN Throw(s, TypeError)
  ELSE LET first == Construct(s, call, target, Spread(s.heap, args))
       IN  Construct(first.s, call, target, Spread(s.heap, args))

\* new target(...args), the spread first.
ConstructSpread(s, call, target, args) ==
  IF ~Iterable(s.heap, args) THEN Throw(s, TypeError)
  ELSE Construct(s, call, target, Spread(s.heap, args))

\* create without the `instanceof Promise` branch: whatever resolve
\* returned is spread at once.
create_NoAwait(s, call, cls, runtime) ==
  IF isResolver(s.heap, cls)
    THEN LET args == Invoke(s, call, Get(s.heap, cls, "resolve"), RuntimeArgs(runtime))
         IN  IF ~args.ok THEN args
             ELSE ConstructSpread(args.s, call, Get(args.s.heap, cls, "target"), args.val)
    ELSE Construct(s, call, cls, <<>>)

\* create handing the runtime to a bare class: new cls(runtime).
create_BareWithRuntime(s, call, cls, runtime) ==
  IF isResolver(s.heap, cls)
    THEN LET args == Invoke(s, call, Get(s.heap, cls, "resolve"), RuntimeArgs(runtime))
         IN  IF ~args.ok THEN args
             ELSE IF InstanceOfPromise(args.s.heap, args.val)
               THEN PromiseThen(args.s, call, args.val, cls)
             ELSE ConstructSpread(args.s, call, Get(args.s.heap, cls, "target"), args.val)
    ELSE Construct(s, call, cls, RuntimeArgs(runtime))

\* create with a validation in front of its last branch: a value that is
\* no function is not constructed, undefined is returned.
create_Guarded(s, call, cls, runtime) ==
  IF isResolver(s.heap, cls)
    THEN LET args == Invoke(s, call, Get(s.heap, cls, "resolve"), RuntimeArgs(runtime))
         IN  IF ~args.ok THEN args
             ELSE IF InstanceOfPromise(args.s.heap, args.val)
               THEN PromiseThen(args.s, call, args.val, cls)
             ELSE ConstructSpread(args.s, call, Get(args.s.heap, cls, "target"), args.val)
    ELSE IF TypeOf(s.heap, cls) # "function" THEN Return(s, Undefined)
    ELSE Construct(s, call, cls, <<>>)

\* create with a handler around it that constructs the placeholder's class
\* when anything failed.
create_Fallback(s, call, cls, runtime) ==
  LET r == IF isResolver(s.heap, cls)
             THEN LET args == Invoke(s, call, Get(s.heap, cls, "resolve"),
                                     RuntimeArgs(runtime))
                  IN  IF ~args.ok THEN args
                      ELSE IF InstanceOfPromise(args.s.heap, args.val)
                        THEN PromiseThen(args.s, call, args.val, cls)
                      ELSE ConstructSpread(args.s, call, Get(args.s.heap, cls, "target"),
                                           args.val)
             ELSE Construct(s, call, cls, <<>>)
  IN  IF r.ok THEN r ELSE Construct(r.s, call, Placeholder, <<>>)

\* classable.create
create(s, call, cls, runtime) ==
  IF isResolver(s.heap, cls)
    THEN LET args == Invoke(s, call, Get(s.heap, cls, "resolve"), RuntimeArgs(runtime))
         IN  IF ~args.ok THEN args
             ELSE IF InstanceOfPromise(args.s.heap, args.val)
               THEN PromiseThen(args.s, call, args.val, cls)
             ELSE ConstructSpread(args.s, call, Get(args.s.heap, cls, "target"), args.val)
    ELSE Construct(s, call, cls, <<>>)

\* from constructing the target with the selected arguments, the static
\* method not called: new StaticClass(...args).
from_Construct(s, call, def, runtime) ==
  LET StaticClass == Get(s.heap, def, "target")
      sel == Invoke(s, call, Get(s.heap, def, "selector"), RuntimeArgs(runtime))
  IN  IF ~sel.ok THEN sel
      ELSE IF sel.val \in {Undefined, Null} THEN Throw(sel.s, TypeError)
      ELSE ConstructSpread(sel.s, call, StaticClass, Get(sel.s.heap, sel.val, "args"))

\* from handing back the promise of a selector that returned one.
from_PassPromise(s, call, def, runtime) ==
  LET StaticClass == Get(s.heap, def, "target")
      sel == Invoke(s, call, Get(s.heap, def, "selector"), RuntimeArgs(runtime))
  IN  IF ~sel.ok THEN sel
      ELSE IF sel.val \in {Undefined, Null} THEN Throw(sel.s, TypeError)
      ELSE IF InstanceOfPromise(sel.s.heap, sel.val) THEN Return(sel.s, sel.val)
      ELSE LET method == Get(sel.s.heap, sel.val, "method")
               args == Get(sel.s.heap, sel.val, "args")
           IN  IF ~Iterable(sel.s.heap, args) THEN Throw(sel.s, TypeError)
               ELSE StaticCall(sel.s, call, StaticClass, method, Spread(sel.s.heap, args))

\* classable.from: the selector's result is destructured as it comes, and
\* the static method it names is called with the spread args.
from(s, call, def, runtime) ==
  LET StaticClass == Get(s.heap, def, "target")
      sel == Invoke(s, call, Get(s.heap, def, "selector"), RuntimeArgs(runtime))
  IN  IF ~sel.ok THEN sel
      ELSE IF sel.val \in {Undefined, Null} THEN Throw(sel.s, TypeError)
      ELSE LET method == Get(sel.s.heap, sel.val, "method")
               args == Get(sel.s.heap, sel.val, "args")
           IN  IF ~Iterable(sel.s.heap, args) THEN Throw(sel.s, TypeError)
               ELSE StaticCall(sel.s, call, StaticClass, method, Spread(sel.s.heap, args))

\* { target, resolve } as the library builds it.
ResolverRecord(s, target, resolve) ==
  Alloc(s, RecordObj([p \in {"target", "resolve"} |->
                        IF p = "target" THEN target ELSE resolve]))

\* withResolve that assigns the resolve of a base that is a descriptor in
\* place, base.resolve = resolve, and returns the base.
withResolve_InPlace(s, base, resolve) ==
  IF isResolver(s.heap, base)
    THEN Return([s EXCEPT !.heap[base].props.resolve = resolve], base)
    ELSE LET normalized == toResolver(s, base)
         IN  ResolverRecord(normalized.s,
                            Get(normalized.s.heap, normalized.val, "target"), resolve)

\* withResolve that keeps the resolve of a base that is a descriptor.
withResolve_KeepResolve(s, base, resolve) ==
  LET normalized == IF isResolver(s.heap, base) THEN Return(s, base)
                    ELSE toResolver(s, base)
  IN  ResolverRecord(normalized.s,
                     Get(normalized.s.heap, normalized.val, "target"),
                     IF isResolver(s.heap, base)
                       THEN Get(s.heap, base, "resolve") ELSE resolve)

\* classable.withResolve: base normalized (a descriptor as it is, anything
\* else through toResolver), then a new record of its target and the given
\* resolve.
withResolve(s, base, resolve) ==
  LET normalized == IF isResolver(s.heap, base) THEN Return(s, base)
                    ELSE toResolver(s, base)
  IN  ResolverRecord(normalized.s,
                     Get(normalized.s.heap, normalized.val, "target"), resolve)

\* wrap that calls the resolve of a descriptor once before wrapping, to
\* try it out.
wrap_Eager(s, call, cls, wrapper) ==
  IF isResolver(s.heap, cls)
    THEN LET tried == Invoke(s, call, Get(s.heap, cls, "resolve"), <<>>)
             w == Invoke(tried.s, call, wrapper, <<Get(s.heap, cls, "target")>>)
         IN  IF ~w.ok THEN w
             ELSE ResolverRecord(w.s, w.val, Get(s.heap, cls, "resolve"))
    ELSE Invoke(s, call, wrapper, <<cls>>)

\* wrap that hands back the wrapped target of a descriptor bare, the
\* resolve lost.
wrap_Unwrapped(s, call, cls, wrapper) ==
  IF isResolver(s.heap, cls)
    THEN Invoke(s, call, wrapper, <<Get(s.heap, cls, "target")>>)
    ELSE Invoke(s, call, wrapper, <<cls>>)

\* wrap that leaves alone a target that is a wrapped class already.
wrap_Once(s, call, cls, wrapper) ==
  IF isResolver(s.heap, cls)
    THEN IF IsRef(s.heap, Get(s.heap, cls, "target"))
           THEN ResolverRecord(s, Get(s.heap, cls, "target"), Get(s.heap, cls, "resolve"))
           ELSE LET w == Invoke(s, call, wrapper, <<Get(s.heap, cls, "target")>>)
                IN  IF ~w.ok THEN w
                    ELSE ResolverRecord(w.s, w.val, Get(s.heap, cls, "resolve"))
    ELSE IF IsRef(s.heap, cls) /\ s.heap[cls].kind = "class" THEN Return(s, cls)
    ELSE Invoke(s, call, wrapper, <<cls>>)

\* classable.wrap: for a descriptor a new record of wrapper(cls.target) and
\* cls.resolve, for anything else wrapper(cls).
wrap(s, call, cls, wrapper) ==
  IF isResolver(s.heap, cls)
    THEN LET w == Invoke(s, call, wrapper, <<Get(s.heap, cls, "target")>>)
         IN  IF ~w.ok THEN w
             ELSE ResolverRecord(w.s, w.val, Get(s.heap, cls, "resolve"))
    ELSE Invoke(s, call, wrapper, <<cls>>)

\* { type, target } as getDescriptor builds it.
DescriptorRecord(s, type, name) ==
  Alloc(s, RecordObj([p \in {"type", "target"} |->
                        IF p = "type" THEN type ELSE name]))

\* v.name: a TypeError for null and undefined, the name of a function, the
\* own property of a record, undefined otherwise.
GetName(s, v) ==
  IF v \in {Undefined, Null} THEN Throw(s, TypeError)
  ELSE IF TypeOf(s.heap, v) = "function" THEN Return(s, NameOf(s.heap, v))
  ELSE Return(s, Get(s.heap, v, "name"))

\* getDescriptor naming a descriptor by the input's own name, not by its
\* target's.
getDescriptor_OwnName(s, cls) ==
  LET name == GetName(s, cls)
  IN  IF ~name.ok THEN name
      ELSE DescriptorRecord(name.s,
                            IF isResolver(s.heap, cls) THEN "resolver" ELSE "class",
                            name.val)

\* classable.getDescriptor
getDescriptor(s, cls) ==
  IF isResolver(s.heap, cls)
    THEN LET name == GetName(s, Get(s.heap, cls, "target"))
         IN  IF ~name.ok THEN name
             ELSE DescriptorRecord(name.s, "resolver", name.val)
    ELSE LET name == GetName(s, cls)
         IN  IF ~name.ok THEN name
             ELSE DescriptorRecord(name.s, "class", name.val)

\* classable.select: a new function (...args) => find(...args) that closes
\* over find.
select(s, find) == Alloc(s, ClosureObj("forward", find))

\* The selecting function with the leading argument not handed on.
Selecting_DropFirst(s, call, fn, args) ==
  Invoke(s, call, s.heap[fn].val, IF args = <<>> THEN args ELSE Tail(args))

\* A call of the function select returned: find(...args), and what find
\* gave back.
Selecting(s, call, fn, args) == Invoke(s, call, s.heap[fn].val, args)

(* ------------------------------------- the predicates, as calls --- *)

\* The operands two host operations throw a TypeError for:
\* Function.prototype.toString.call(v) when v is no function,
\* Object.prototype.hasOwnProperty.call(v, prop) and v.prop when v is null
\* or undefined.
ToStringThrows(h, v) == TypeOf(h, v) # "function"
ToObjectThrows(v) == v \in {Undefined, Null}

\* A JavaScript boolean.
Bool(b) == IF b THEN "true" ELSE "false"

\* is without the typeof test.
isCall_NoTypeTest(s, fn) ==
  IF ToStringThrows(s.heap, fn) THEN Throw(s, TypeError)
  ELSE Return(s, Bool(MatchesClass(FunctionToString(s.heap, fn))))

\* A call of classable.is: the typeof test, then the text of the function
\* against the pattern.
isCall(s, fn) ==
  IF TypeOf(s.heap, fn) # "function" THEN Return(s, "false")
  ELSE IF ToStringThrows(s.heap, fn) THEN Throw(s, TypeError)
  ELSE Return(s, Bool(MatchesClass(FunctionToString(s.heap, fn))))

\* A call of classable.isAbstract.
isAbstractCall(s, fn) ==
  IF TypeOf(s.heap, fn) # "function" THEN Return(s, "false")
  ELSE IF ToStringThrows(s.heap, fn) THEN Throw(s, TypeError)
  ELSE Return(s, Bool(MatchesAbstractClass(FunctionToString(s.heap, fn))))

\* A call of hasOwnProperty(obj, prop): typeof obj === "object", then
\* obj !== null, then the host's hasOwnProperty.
hasOwnPropertyCall(s, obj, prop) ==
  IF TypeOf(s.heap, obj) # "object" THEN Return(s, "false")
  ELSE IF obj = Null THEN Return(s, "false")
  ELSE IF ToObjectThrows(obj) THEN Throw(s, TypeError)
  ELSE Return(s, Bool(OwnProperty(s.heap, obj, prop)))

\* isResolver without the test that resolve is a function.
isResolverCall_AnyResolve(s, obj) ==
  LET hasTarget == hasOwnPropertyCall(s, obj, "target")
  IN  IF ~hasTarget.ok \/ hasTarget.val = "false" THEN hasTarget
      ELSE LET isClass == isCall(s, Get(s.heap, obj, "target"))
           IN  IF ~isClass.ok \/ isClass.val = "false" THEN isClass
               ELSE hasOwnPropertyCall(s, obj, "resolve")

\* A call of classable.isResolver: the four tests of index.ts:558-561 in
\* their order, each reached only when the one before it was true.
isResolverCall(s, obj) ==
  LET hasTarget == hasOwnPropertyCall(s, obj, "target")
  IN  IF ~hasTarget.ok \/ hasTarget.val = "false" THEN hasTarget
      ELSE IF ToObjectThrows(obj) THEN Throw(s, TypeError)
      ELSE LET isClass == isCall(s, Get(s.heap, obj, "target"))
           IN  IF ~isClass.ok \/ isClass.val = "false" THEN isClass
               ELSE LET hasResolve == hasOwnPropertyCall(s, obj, "resolve")
                    IN  IF ~hasResolve.ok \/ hasResolve.val = "false" THEN hasResolve
                        ELSE Return(s, Bool(TypeOf(s.heap, Get(s.heap, obj, "resolve"))
                                              = "function"))

(* --------------------------------------------------------- the host --- *)

\* The value an async resolve's promise is fulfilled with: the argument
\* list ["Ann"].
Fulfilment(s) == Alloc(s, ArrayObj(<<"Ann">>))

\* The value the promise of an async resolve is fulfilled with: rEcho's
\* with the list of the runtime it was called with, [ctx].
FulfilmentOf(s, promise) ==
  IF s.heap[promise].cls = "rEcho"
    THEN Alloc(s, ArrayObj(<<ArgAt(s.heap[promise].elems, 1)>>))
    ELSE Fulfilment(s)

\* The async resolve functions, whose promises the host settles.
AsyncResolves == {"rAsync", "rEcho"}

\* The host settles a pending promise: fulfilled with its value or rejected
\* with E.  The reactions waiting for it join the microtask queue in the
\* order they were registered.
SettlePromise(s, promise, ok) ==
  LET v == IF ok THEN FulfilmentOf(s, promise) ELSE Return(s, ErrE)
      waiting(r) == r.src = promise
      others(r) == r.src # promise
      s1 == [v.s EXCEPT
               !.heap[promise].state = IF ok THEN "fulfilled" ELSE "rejected",
               !.heap[promise].val = v.val,
               !.jobs = @ \o SelectSeq(s.reactions, waiting),
               !.reactions = SelectSeq(@, others)]
  IN  Emit(s1, Event("settle", 0, promise, "", <<>>, ok, v.val))

\* RunReaction with a rejection handler that falls back to constructing the
\* target without arguments.
RunReaction_Fallback(s, job) ==
  LET src == s.heap[job.src]
      r == IF src.state = "fulfilled"
             THEN ConstructSpread(s, job.call, Get(s.heap, job.cls, "target"), src.val)
             ELSE Construct(s, job.call, Get(s.heap, job.cls, "target"), <<>>)
      s1 == [r.s EXCEPT
               !.heap[job.derived].state = IF r.ok THEN "fulfilled" ELSE "rejected",
               !.heap[job.derived].val = r.val,
               !.jobs = Tail(@)]
  IN  Emit(s1, Event("job", job.call, job.derived, "", <<>>, r.ok, r.val))

\* The descriptor of the latest call of create.
LatestCreate(l) ==
  LET creates == {i \in DOMAIN l : l[i].ev = "call" /\ l[i].f = "create"}
  IN  l[CHOOSE i \in creates : \A j \in creates : j <= i].args[1]

\* RunReaction with the descriptor kept in a slot all calls share: the
\* callback constructs the target of the latest create.
RunReaction_SharedSlot(s, job) ==
  LET src == s.heap[job.src]
      r == IF src.state = "fulfilled"
             THEN ConstructSpread(s, job.call, Get(s.heap, LatestCreate(s.log), "target"),
                                  src.val)
             ELSE Throw(s, src.val)
      s1 == [r.s EXCEPT
               !.heap[job.derived].state = IF r.ok THEN "fulfilled" ELSE "rejected",
               !.heap[job.derived].val = r.val,
               !.jobs = Tail(@)]
  IN  Emit(s1, Event("job", job.call, job.derived, "", <<>>, r.ok, r.val))

\* One promise reaction job of create's then: on fulfilment the callback
\* (resolvedArgs) => new cls.target(...resolvedArgs) runs and its outcome
\* settles the derived promise; a rejection passes to the derived promise
\* as it is, there being no rejection handler.
RunReaction(s, job) ==
  LET src == s.heap[job.src]
      r == IF src.state = "fulfilled"
             THEN ConstructSpread(s, job.call, Get(s.heap, job.cls, "target"), src.val)
             ELSE Throw(s, src.val)
      s1 == [r.s EXCEPT
               !.heap[job.derived].state = IF r.ok THEN "fulfilled" ELSE "rejected",
               !.heap[job.derived].val = r.val,
               !.jobs = Tail(@)]
  IN  Emit(s1, Event("job", job.call, job.derived, "", <<>>, r.ok, r.val))

(* ----------------------------------------------------------- the run --- *)

\* The objects the caller holds before the first call: the library's
\* placeholder and placeholderInstance (index.ts:196, 284) and the
\* descriptors the caller wrote.
placeholder == Ref(1)
placeholderInstance == Ref(2)
userCtx == Ref(3)
userAsync == Ref(4)
cacheByCtx == Ref(5)
cacheAsync == Ref(6)
anonCtx == Ref(7)

Descriptor(target, key, fn) ==
  RecordObj([p \in {"target", key} |-> IF p = "target" THEN target ELSE fn])

InitialHeap ==
  (placeholder :> Descriptor(Placeholder, "resolve", "rEmpty"))
  @@ (placeholderInstance :> Descriptor(Placeholder, "selector", "selGetInstance"))
  @@ (userCtx :> Descriptor(User, "resolve", "rCtx"))
  @@ (userAsync :> Descriptor(User, "resolve", "rAsync"))
  @@ (cacheByCtx :> Descriptor(Cache, "selector", "selByCtx"))
  @@ (cacheAsync :> Descriptor(Cache, "selector", "selAsync"))
  @@ (anonCtx :> Descriptor(AnonCompact, "resolve", "rCtx"))

\* The records that carry a target and the given function property.
RecordsWith(h, key) ==
  {a \in DOMAIN h : h[a].kind = "record" /\ {"target", key} \subseteq DOMAIN h[a].props}

\* What a caller passes where a Classable is expected, and where a static
\* factory definition is expected.
ClassableInputs(h) ==
  NativeClasses \cup RecordsWith(h, "resolve")
    \cup {a \in DOMAIN h : h[a].kind = "class"}
StaticInputs(h) == RecordsWith(h, "selector")

\* The runtime argument of a call: left out, or one of these.
RuntimeValues == {Undefined, Ctx}
RuntimeTails == {<<>>} \cup {<<v>> : v \in RuntimeValues}

\* The value of the optional parameter `runtime` inside the function.
RuntimeParam(tail) == IF tail = <<>> THEN Undefined ELSE tail[1]

IsCall(e) == e.ev = "call"
NCalls(l) == Len(SelectSeq(l, IsCall))

Current == Store(heap, reactions, jobs, log)

\* The store an operation left becomes the state, with the call logged.
Commit(r, call, op, args) ==
  /\ heap' = r.s.heap
  /\ reactions' = r.s.reactions
  /\ jobs' = r.s.jobs
  /\ log' = Append(r.s.log, Event("call", call, op, "", args, r.ok, r.val))

Init ==
  /\ heap = InitialHeap
  /\ reactions = <<>>
  /\ jobs = <<>>
  /\ log = <<>>

CallCreate ==
  /\ NCalls(log) < MaxCalls
  /\ \E cls \in ClassableInputs(heap), tail \in RuntimeTails :
       LET call == NCalls(log) + 1
       IN  Commit(create(Current, call, cls, RuntimeParam(tail)), call,
                  "create", <<cls>> \o tail)

CallFrom ==
  /\ NCalls(log) < MaxCalls
  /\ \E def \in StaticInputs(heap), tail \in RuntimeTails :
       LET call == NCalls(log) + 1
       IN  Commit(from(Current, call, def, RuntimeParam(tail)), call,
                  "from", <<def>> \o tail)

CallToResolver ==
  /\ NCalls(log) < MaxCalls
  /\ \E cls \in ClassableInputs(heap) :
       LET call == NCalls(log) + 1
       IN  Commit(toResolver(Current, cls), call, "toResolver", <<cls>>)

CallGetTarget ==
  /\ NCalls(log) < MaxCalls
  /\ \E cls \in ClassableInputs(heap) :
       LET call == NCalls(log) + 1
       IN  Commit(getTarget(Current, cls), call, "getTarget", <<cls>>)

\* The host completes an async resolve's computation.  (The promise of an
\* async selector is left alone: from registers no reaction on it.)
Settle ==
  \E promise \in DOMAIN heap, ok \in BOOLEAN :
    /\ heap[promise].kind = "promise"
    /\ heap[promise].state = "pending"
    /\ heap[promise].cls \in AsyncResolves
    /\ LET s == SettlePromise(Current, promise, ok)
       IN  /\ heap' = s.heap
           /\ reactions' = s.reactions
           /\ jobs' = s.jobs
           /\ log' = s.log

\* The host runs the next microtask.
RunJob ==
  /\ jobs # <<>>
  /\ LET s == RunReaction(Current, Head(jobs))
     IN  /\ heap' = s.heap
         /\ reactions' = s.reactions
         /\ jobs' = s.jobs
         /\ log' = s.log

Next ==
  \/ CallCreate
  \/ CallFrom
  \/ CallToResolver
  \/ CallGetTarget
  \/ Settle
  \/ RunJob

Spec == Init /\ [][Next]_vars

(* ------------------------------------- the run: reshaping classables --- *)

\* The resolve functions and the wrappers a caller passes.
ResolveInputs == {"rCtx", "rEmpty"}
WrapperInputs == {"withLogging", "withMetrics"}

CallWithResolve ==
  /\ NCalls(log) < MaxCalls
  /\ \E base \in ClassableInputs(heap), resolve \in ResolveInputs :
       LET call == NCalls(log) + 1
       IN  Commit(withResolve(Current, base, resolve), call, "withResolve",
                  <<base, resolve>>)

CallWrap ==
  /\ NCalls(log) < MaxCalls
  /\ \E cls \in ClassableInputs(heap), wrapper \in WrapperInputs :
       LET call == NCalls(log) + 1
       IN  Commit(wrap(Current, call, cls, wrapper), call, "wrap",
                  <<cls, wrapper>>)

CallGetDescriptor ==
  /\ NCalls(log) < MaxCalls
  /\ \E cls \in ClassableInputs(heap) :
       LET call == NCalls(log) + 1
       IN  Commit(getDescriptor(Current, cls), call, "getDescriptor", <<cls>>)

ShapeNext ==
  \/ CallGetTarget
  \/ CallWithResolve
  \/ CallWrap
  \/ CallGetDescriptor
  \/ CallCreate

ShapeSpec == Init /\ [][ShapeNext]_vars

(* ------------------------------- the run: constructions that fail --- *)

\* Descriptors and a static factory definition of the class Broken.
brokenCtx == Ref(8)
brokenAsync == Ref(9)
brokenMake == Ref(10)

FailureHeap ==
  InitialHeap
  @@ (brokenCtx :> Descriptor(Broken, "resolve", "rCtx"))
  @@ (brokenAsync :> Descriptor(Broken, "resolve", "rAsync"))
  @@ (brokenMake :> Descriptor(Broken, "selector", "selMake"))

FailureInit ==
  /\ heap = FailureHeap
  /\ reactions = <<>>
  /\ jobs = <<>>
  /\ log = <<>>

FailureNext ==
  \/ CallCreate
  \/ CallFrom
  \/ Settle
  \/ RunJob

FailureSpec == FailureInit /\ [][FailureNext]_vars

(* ---------------------------- the run: selecting and classifying --- *)

\* The selectors a caller passes to select, and the argument lists it calls
\* the selecting function with: candidates, after a runtime or without one.
SelectorInputs == {"pickFirst", "pickByEnv", "pickAsync"}
CandidateLists ==
  {<<>>, <<User, Cache>>, <<Cache, userCtx>>, <<Ctx, User, Cache>>}

\* The functions select has returned so far.
SelectingFunctions(h) ==
  {a \in DOMAIN h : h[a].kind = "function" /\ h[a].cls = "forward"}

CallSelect ==
  /\ NCalls(log) < MaxCalls
  /\ \E find \in SelectorInputs :
       LET call == NCalls(log) + 1
       IN  Commit(select(Current, find), call, "select", <<find>>)

CallSelecting ==
  /\ NCalls(log) < MaxCalls
  /\ \E fn \in SelectingFunctions(heap), args \in CandidateLists :
       LET call == NCalls(log) + 1
       IN  Commit(Selecting(Current, call, fn, args), call, "selecting",
                  <<fn>> \o args)

\* Records a caller may hold that are no resolver descriptors, an array,
\* and a class a wrapper made before the run.
targetOnly == Ref(8)
resolveOnly == Ref(9)
resolveNoFunction == Ref(10)
targetNoClass == Ref(11)
emptyRecord == Ref(12)
emptyArray == Ref(13)
loggedUser == Ref(14)

InspectHeap ==
  InitialHeap
  @@ (targetOnly :> RecordObj([p \in {"target"} |-> User]))
  @@ (resolveOnly :> RecordObj([p \in {"resolve"} |-> "rEmpty"]))
  @@ (resolveNoFunction :> Descriptor(User, "resolve", "n42"))
  @@ (targetNoClass :> Descriptor("noop", "resolve", "rEmpty"))
  @@ (emptyRecord :> RecordObj(NoProps))
  @@ (emptyArray :> ArrayObj(<<>>))
  @@ (loggedUser :> ClassObj("withLogging", User))

\* The values a caller passes to a predicate: primitives, the classes and
\* functions of the run, and every object there is.
ClassifyInputs(h) ==
  {Undefined, Null, Ctx, "n42"} \cup Classes \cup PlainFunctions
    \cup {"noop", "rAsync"} \cup DOMAIN h

InspectInit ==
  /\ heap = InspectHeap
  /\ reactions = <<>>
  /\ jobs = <<>>
  /\ log = <<>>

CallIs ==
  /\ NCalls(log) < MaxCalls
  /\ \E fn \in ClassifyInputs(heap) :
       LET call == NCalls(log) + 1
       IN  Commit(isCall(Current, fn), call, "is", <<fn>>)

CallIsAbstract ==
  /\ NCalls(log) < MaxCalls
  /\ \E fn \in ClassifyInputs(heap) :
       LET call == NCalls(log) + 1
       IN  Commit(isAbstractCall(Current, fn), call, "isAbstract", <<fn>>)

CallIsResolver ==
  /\ NCalls(log) < MaxCalls
  /\ \E obj \in ClassifyInputs(heap) :
       LET call == NCalls(log) + 1
       IN  Commit(isResolverCall(Current, obj), call, "isResolver", <<obj>>)

InspectNext ==
  \/ CallSelect
  \/ CallSelecting
  \/ CallIs
  \/ CallIsAbstract
  \/ CallIsResolver

InspectSpec == InspectInit /\ [][InspectNext]_vars

(* ------------------------------- the run: runtimes of every type --- *)

\* Descriptors whose resolve is deferred and depends on the runtime.
userEcho == Ref(8)
cacheEcho == Ref(9)

RuntimeHeap ==
  InitialHeap
  @@ (userEcho :> Descriptor(User, "resolve", "rEcho"))
  @@ (cacheEcho :> Descriptor(Cache, "resolve", "rEcho"))

\* The runtime argument of a call: left out, undefined, a falsy value of
\* each type, or a context.
AnyRuntimeValues == {Undefined, Null, "false", "n0", "", Ctx}
AnyRuntimeTails == {<<>>} \cup {<<v>> : v \in AnyRuntimeValues}

\* The descriptors and definitions these runs call create and from with.
RuntimeCreateInputs == {placeholder, userCtx}
RuntimeFromInputs == {placeholderInstance, cacheByCtx, cacheAsync}

RuntimeInit ==
  /\ heap = RuntimeHeap
  /\ reactions = <<>>
  /\ jobs = <<>>
  /\ log = <<>>

CallCreateWithRuntime ==
  /\ NCalls(log) < MaxCalls
  /\ \E cls \in RuntimeCreateInputs, tail \in AnyRuntimeTails :
       LET call == NCalls(log) + 1
       IN  Commit(create(Current, call, cls, RuntimeParam(tail)), call,
                  "create", <<cls>> \o tail)

CallFromWithRuntime ==
  /\ NCalls(log) < MaxCalls
  /\ \E def \in RuntimeFromInputs, tail \in AnyRuntimeTails :
       LET call == NCalls(log) + 1
       IN  Commit(from(Current, call, def, RuntimeParam(tail)), call,
                  "from", <<def>> \o tail)

RuntimeNext ==
  \/ CallCreateWithRuntime
  \/ CallFromWithRuntime

RuntimeSpec == RuntimeInit /\ [][RuntimeNext]_vars

(* ------------------------- the run: several deferred creates pending --- *)

\* The descriptors with a deferred resolve and the runtimes they are
\* created with.
DeferredInputs == {userEcho, cacheEcho}
DeferredTails == {<<Ctx>>, <<"n0">>}

CallCreateDeferred ==
  /\ NCalls(log) < MaxCalls
  /\ \E cls \in DeferredInputs, tail \in DeferredTails :
       LET call == NCalls(log) + 1
       IN  Commit(create(Current, call, cls, RuntimeParam(tail)), call,
                  "create", <<cls>> \o tail)

PendingNext ==
  \/ CallCreateDeferred
  \/ Settle
  \/ RunJob

PendingSpec == RuntimeInit /\ [][PendingNext]_vars

(* --------------------------------- the run: the whole interface --- *)

ApiNext ==
  \/ CallCreate
  \/ CallFrom
  \/ CallToResolver
  \/ CallGetTarget
  \/ CallWithResolve
  \/ CallWrap
  \/ CallGetDescriptor
  \/ CallSelect
  \/ CallIsResolver
  \/ Settle
  \/ RunJob

\* The caller holds the library's two placeholders and two descriptors of
\* User, one with an immediate and one with a deferred resolve.
ApiHeap == [a \in {placeholder, placeholderInstance, userCtx, userAsync} |->
              InitialHeap[a]]

ApiInit ==
  /\ heap = ApiHeap
  /\ reactions = <<>>
  /\ jobs = <<>>
  /\ log = <<>>

ApiSpec == ApiInit /\ [][ApiNext]_vars

(* ------------------------------ the run: create on values of any type --- *)

\* create called with whatever the caller holds, a Classable or not.
CallCreateAny ==
  /\ NCalls(log) < MaxCalls
  /\ \E cls \in ClassifyInputs(heap), tail \in RuntimeTails :
       LET call == NCalls(log) + 1
       IN  Commit(create(Current, call, cls, RuntimeParam(tail)), call,
                  "create", <<cls>> \o tail)

MisuseNext == CallCreateAny

MisuseSpec == InspectInit /\ [][MisuseNext]_vars

(* ------------------------------------------- reading the log back --- *)

\* The classes classable.is recognises: a class whose text does not go on
\* with whitespace after the keyword (AnonCompact) is not among them.
Constructibles == NativeClasses \ {AnonCompact}

\* A class of the run: one of Constructibles, or a class expression
\* `class extends Target { ... }` a wrapper evaluated.
IsWrappedClass(v) == IsRef(heap, v) /\ heap[v].kind = "class"
IsConstructible(v) == v \in Constructibles \/ IsWrappedClass(v)

\* The resolver descriptors: records with a Constructible as target and a
\* function as resolve.
IsResolverDescriptor(d) ==
  /\ OwnProperty(heap, d, "target")
  /\ OwnProperty(heap, d, "resolve")
  /\ IsConstructible(heap[d].props.target)
  /\ TypeOf(heap, heap[d].props.resolve) = "function"

ResolverDescriptors == {d \in DOMAIN heap : IsResolverDescriptor(d)}

\* The log positions of the events of one kind that belong to a call.
EventsOf(ev, call) == {i \in DOMAIN log : log[i].ev = ev /\ log[i].call = call}

\* The log positions of the calls of an operation.
CallsOf(op) == {i \in DOMAIN log : IsCall(log[i]) /\ log[i].f = op}

\* The calls of create on a resolver descriptor, and among them those whose
\* resolve returned an argument list and those whose resolve returned a
\* promise.
DescriptorCreates ==
  {i \in DOMAIN log :
     IsCall(log[i]) /\ log[i].f = "create" /\ IsResolverDescriptor(log[i].args[1])}

ResolveReturned(i) ==
  {log[k].res : k \in {j \in EventsOf("invoke", log[i].call) : log[j].ok}}

ImmediateCreates ==
  {i \in DescriptorCreates : \E a \in ResolveReturned(i) : Iterable(heap, a)}

DeferredCreates ==
  {i \in DescriptorCreates : \E p \in ResolveReturned(i) : InstanceOfPromise(heap, p)}

\* An instance of class c built with the arguments args.
IsInstanceOf(v, c, args) ==
  /\ IsRef(heap, v)
  /\ heap[v].kind = "instance"
  /\ heap[v].cls = c
  /\ heap[v].elems = args

\* The call at position i ended as the construction at position k did:
\* it returned the instance the constructor made, or threw what it threw.
EndedAs(i, k) == log[i].ok = log[k].ok /\ log[i].res = log[k].res

(* ------------------------------------------------------------ claims --- *)

\* C1: create on a resolver descriptor whose resolve returns an argument
\* list constructs the target once, before it returns, with exactly the
\* elements of that list in order, and returns the instance itself, never a
\* promise.
C1_SyncResolve ==
  \A i \in ImmediateCreates :
    LET d == log[i].args[1]
        news == EventsOf("new", log[i].call)
    IN  /\ Cardinality(news) = 1
        /\ ~InstanceOfPromise(heap, log[i].res)
        /\ \A k \in news, a \in ResolveReturned(i) :
             /\ k < i
             /\ log[k].f = heap[d].props.target
             /\ log[k].args = heap[a].elems
             /\ EndedAs(i, k)
             /\ log[i].ok => IsInstanceOf(log[i].res, heap[d].props.target, heap[a].elems)

C1_Witness ==
  \E i \in ImmediateCreates :
    /\ log[i].args = <<userCtx, Ctx>>
    /\ log[i].ok
    /\ IsInstanceOf(log[i].res, User, <<Ctx, "n30">>)

\* C2: create on a resolver descriptor whose resolve returns a promise
\* returns a new promise; the target is constructed only after that inner
\* promise was fulfilled, with the elements of the list it was fulfilled
\* with, and the returned promise is fulfilled with that instance; it stays
\* pending while the inner promise is.
C2_AsyncResolve ==
  \A i \in DeferredCreates : \A p \in ResolveReturned(i) :
    LET d == log[i].args[1]
        out == log[i].res
        news == EventsOf("new", log[i].call)
    IN  /\ log[i].ok
        /\ InstanceOfPromise(heap, out)
        /\ out # p
        /\ heap[p].state = "pending" => heap[out].state = "pending"
        /\ \A k \in news :
             /\ \E j \in 1..(k - 1) :
                  log[j].ev = "settle" /\ log[j].f = p /\ log[j].ok /\ i < j
             /\ log[k].f = heap[d].props.target
             /\ log[k].args = heap[heap[p].val].elems
        /\ heap[out].state = "fulfilled" =>
             /\ Cardinality(news) = 1
             /\ \A k \in news : log[k].ok /\ log[k].res = heap[out].val
             /\ IsInstanceOf(heap[out].val, heap[d].props.target, heap[heap[p].val].elems)
        /\ (heap[p].state = "fulfilled" /\ EventsOf("job", log[i].call) # {}) =>
             heap[out].state # "pending" /\ Cardinality(news) = 1

C2_Witness ==
  \E i \in DeferredCreates :
    /\ log[i].args[1] = userAsync
    /\ heap[log[i].res].state = "fulfilled"
    /\ IsInstanceOf(heap[log[i].res].val, User, <<"Ann">>)

\* C3: when the promise resolve returned is rejected with E, the promise
\* create returned is rejected with the same E once its reaction has run
\* (and is never fulfilled), and the target is never constructed.
C3_AsyncFailure ==
  \A i \in DeferredCreates : \A p \in ResolveReturned(i) :
    heap[p].state = "rejected" =>
      /\ EventsOf("new", log[i].call) = {}
      /\ heap[log[i].res].state # "fulfilled"
      /\ heap[log[i].res].state = "rejected" => heap[log[i].res].val = heap[p].val
      /\ EventsOf("job", log[i].call) # {} =>
           heap[log[i].res].state = "rejected" /\ heap[log[i].res].val = ErrE

C3_Witness ==
  \E i \in DeferredCreates :
    /\ heap[log[i].res].state = "rejected"
    /\ heap[log[i].res].val = ErrE
    /\ EventsOf("new", log[i].call) = {}

\* C4: create on a bare Constructible calls no resolve function and
\* constructs that class once, before it returns, with no arguments; what
\* it returns is the instance itself, never a promise.
C4_BareCreate ==
  \A i \in CallsOf("create") :
    log[i].args[1] \in Constructibles =>
      LET news == EventsOf("new", log[i].call)
      IN  /\ EventsOf("invoke", log[i].call) = {}
          /\ Cardinality(news) = 1
          /\ ~InstanceOfPromise(heap, log[i].res)
          /\ \A k \in news :
               /\ k < i
               /\ log[k].f = log[i].args[1]
               /\ log[k].args = <<>>
               /\ EndedAs(i, k)
               /\ log[i].ok => IsInstanceOf(log[i].res, log[i].args[1], <<>>)

C4_Witness ==
  \E i \in CallsOf("create") :
    /\ log[i].args = <<User, Ctx>>
    /\ log[i].ok
    /\ IsInstanceOf(log[i].res, User, <<>>)

\* C5: create on a resolver descriptor calls the descriptor's resolve once:
\* with the runtime as its only argument when the caller passed one, with
\* no argument when the caller passed none.  (A runtime passed as the value
\* undefined is C27's case.)
C5_ResolveArguments ==
  \A i \in DescriptorCreates :
    LET invs == EventsOf("invoke", log[i].call)
    IN  /\ Cardinality(invs) = 1
        /\ \A k \in invs :
             /\ k < i
             /\ log[k].f = heap[log[i].args[1]].props.resolve
             /\ Len(log[i].args) = 1 => log[k].args = <<>>
             /\ (Len(log[i].args) = 2 /\ log[i].args[2] # Undefined) =>
                  log[k].args = <<log[i].args[2]>>

C5_Witness ==
  /\ \E i \in DescriptorCreates, k \in DOMAIN log :
       /\ log[i].args = <<userCtx, Ctx>>
       /\ k \in EventsOf("invoke", log[i].call)
       /\ log[k].args = <<Ctx>>
  /\ \E i \in DescriptorCreates, k \in DOMAIN log :
       /\ log[i].args = <<userCtx>>
       /\ k \in EventsOf("invoke", log[i].call)
       /\ log[k].args = <<>>

\* The inputs the claims speak of: a bare Constructible or a resolver
\* descriptor.
IsValidClassable(x) == IsConstructible(x) \/ IsResolverDescriptor(x)
ValidClassables ==
  Constructibles \cup {c \in DOMAIN heap : IsWrappedClass(c)} \cup ResolverDescriptors

\* The client can make another call.
CanCall == NCalls(log) < MaxCalls

\* A call of create has finished when it returned a value that is no
\* promise, threw, or returned a promise that is settled by now.
Finished(i) ==
  ~(log[i].ok /\ InstanceOfPromise(heap, log[i].res)
      /\ heap[log[i].res].state = "pending")

\* C6 as stated: every finished call of create on a bare Constructible or a
\* resolver descriptor ran the target's constructor exactly once.
C6_ExactlyOnePerCall ==
  \A i \in CallsOf("create") :
    (IsValidClassable(log[i].args[1]) /\ Finished(i)) =>
      Cardinality(EventsOf("new", log[i].call)) = 1

\* C6, amended: a call of create runs the target's constructor at most
\* once, and no other constructor: exactly once when the input is a bare
\* Constructible or resolve returned an argument list, exactly once when the
\* promise resolve returned was fulfilled and the reaction has run, and not
\* at all while that promise is pending or when it was rejected.
C6_AtMostOnePerCall ==
  \A i \in CallsOf("create") :
    IsValidClassable(log[i].args[1]) =>
      LET x == log[i].args[1]
          target == IF x \in Constructibles THEN x ELSE heap[x].props.target
          news == EventsOf("new", log[i].call)
      IN  /\ Cardinality(news) <= 1
          /\ \A k \in news : log[k].f = target
          /\ (x \in Constructibles \/ i \in ImmediateCreates) => Cardinality(news) = 1
          /\ i \in DeferredCreates =>
               \A p \in ResolveReturned(i) :
                 /\ heap[p].state # "fulfilled" => news = {}
                 /\ (heap[p].state = "fulfilled" /\ EventsOf("job", log[i].call) # {}) =>
                      Cardinality(news) = 1

C6_Witness ==
  /\ \E i \in DeferredCreates :
       /\ heap[log[i].res].state = "rejected"
       /\ EventsOf("job", log[i].call) # {}
       /\ EventsOf("new", log[i].call) = {}
  /\ \E i \in ImmediateCreates : Cardinality(EventsOf("new", log[i].call)) = 1

\* C7: from calls the definition's selector once (with the runtime as its
\* only argument when one was passed, with none when none was), then calls
\* the static method of the target that the selection names, once, with the
\* selection's args, and ends as that method did: it returns the very value
\* the method returned, instance or not, or throws what it threw.
C7_From ==
  \A i \in CallsOf("from") :
    LET def == log[i].args[1]
        invs == EventsOf("invoke", log[i].call)
        statics == EventsOf("static", log[i].call)
    IN  /\ Cardinality(invs) = 1
        /\ \A k \in invs :
             /\ log[k].f = heap[def].props.selector
             /\ Len(log[i].args) = 1 => log[k].args = <<>>
             /\ (Len(log[i].args) = 2 /\ log[i].args[2] # Undefined) =>
                  log[k].args = <<log[i].args[2]>>
             /\ (log[k].ok /\ OwnProperty(heap, log[k].res, "method")) =>
                  /\ Cardinality(statics) = 1
                  /\ \A j \in statics :
                       /\ k < j /\ j < i
                       /\ log[j].f = heap[def].props.target
                       /\ log[j].m = heap[log[k].res].props.method
                       /\ log[j].args = heap[heap[log[k].res].props.args].elems
                       /\ EndedAs(i, j)

C7_Witness ==
  /\ \E i \in CallsOf("from") :
       log[i].args = <<cacheByCtx>> /\ log[i].ok /\ log[i].res = "n42"
  /\ \E i \in CallsOf("from") :
       /\ log[i].args = <<cacheByCtx, Ctx>>
       /\ log[i].ok
       /\ IsInstanceOf(log[i].res, Cache, <<Ctx>>)

\* Two descriptors are structurally equal when they are the same object, or
\* records with the same target whose resolve functions have the same body.
StructurallyEqual(h, a, b) ==
  \/ a = b
  \/ /\ OwnProperty(h, a, "resolve") /\ OwnProperty(h, b, "resolve")
     /\ DOMAIN h[a].props = DOMAIN h[b].props
     /\ h[a].props.target = h[b].props.target
     /\ BodyOf(h, h[a].props.resolve) = BodyOf(h, h[b].props.resolve)

C9_ToResolver ==
  /\ CanCall => \A d \in ResolverDescriptors :
       toResolver(Current, d) = Return(Current, d)
  /\ CanCall => \A c \in Constructibles :
       \A r \in {toResolver(Current, c)} : \A h \in {r.s.heap} :
         /\ r.ok
         /\ r.val \notin DOMAIN heap
         /\ h[r.val].kind = "record"
         /\ DOMAIN h[r.val].props = {"target", "resolve"}
         /\ h[r.val].props.target = c
         /\ TypeOf(h, h[r.val].props.resolve) = "function"
         /\ \A args \in RuntimeTails :
              \A a \in {Apply(r.s, h[r.val].props.resolve, args)} :
                a.ok /\ Iterable(a.s.heap, a.val) /\ Spread(a.s.heap, a.val) = <<>>
  /\ \A i \in CallsOf("toResolver") :
       /\ IsResolverDescriptor(log[i].args[1]) => log[i].res = log[i].args[1]
       /\ log[i].args[1] \in Constructibles =>
            /\ log[i].res # log[i].args[1]
            /\ Get(heap, log[i].res, "target") = log[i].args[1]

C9_Witness ==
  /\ \E i \in CallsOf("toResolver") :
       log[i].args[1] = placeholder /\ log[i].res = placeholder
  /\ \E i \in CallsOf("toResolver") :
       /\ log[i].args[1] = User
       /\ Get(heap, log[i].res, "target") = User
       /\ BodyOf(heap, Get(heap, log[i].res, "resolve")) = "rEmpty"

C11_GetTarget ==
  /\ CanCall => \A x \in ValidClassables :
       \A g \in {getTarget(Current, x)} :
         /\ g.ok
         /\ g.s = Current
         /\ IsConstructible(g.val)
         /\ g.val = IF IsResolverDescriptor(x) THEN heap[x].props.target ELSE x
  /\ \A i \in CallsOf("getTarget") :
       /\ IsResolverDescriptor(log[i].args[1]) =>
            log[i].ok /\ log[i].res = heap[log[i].args[1]].props.target
       /\ IsConstructible(log[i].args[1]) =>
            log[i].ok /\ log[i].res = log[i].args[1]

C11_Witness ==
  \E i \in CallsOf("getTarget") :
    /\ IsResolverDescriptor(log[i].args[1])
    /\ IsWrappedClass(log[i].res)
    /\ BaseOf(heap, log[i].res) = User

\* The Constructible under a bare Constructible or a resolver descriptor.
Underlying(x) == IF IsResolverDescriptor(x) THEN heap[x].props.target ELSE x

C13_WrapShape ==
  /\ CanCall => \A x \in ValidClassables, f \in WrapperInputs :
       \A w \in {wrap(Current, NCalls(log) + 1, x, f)} : \A h \in {w.s.heap} :
         /\ w.ok
         /\ w.val \notin DOMAIN heap
         /\ \A a \in DOMAIN heap : h[a] = heap[a]
         /\ IsConstructible(x) =>
              h[w.val].kind = "class" /\ h[w.val].val = x /\ is(h, w.val)
         /\ IsResolverDescriptor(x) =>
              /\ isResolver(h, w.val)
              /\ DOMAIN h[w.val].props = {"target", "resolve"}
              /\ h[h[w.val].props.target].kind = "class"
              /\ h[h[w.val].props.target].val = heap[x].props.target
              /\ h[w.val].props.resolve = heap[x].props.resolve
  /\ \A i \in CallsOf("wrap") :
       LET x == log[i].args[1]
           invs == EventsOf("invoke", log[i].call)
       IN  IsValidClassable(x) =>
             /\ log[i].ok
             /\ Cardinality(invs) = 1
             /\ \A k \in invs :
                  /\ log[k].f = log[i].args[2]
                  /\ log[k].args = <<Underlying(x)>>
                  /\ IsConstructible(x) =>
                       log[i].res = log[k].res /\ IsConstructible(log[i].res)
                  /\ IsResolverDescriptor(x) =>
                       /\ log[i].res # x
                       /\ IsResolverDescriptor(log[i].res)
                       /\ heap[log[i].res].props.target = log[k].res
                       /\ heap[log[i].res].props.resolve = heap[x].props.resolve

C13_Witness ==
  \E i \in CallsOf("wrap"), j \in CallsOf("create") :
    /\ log[i].args = <<userCtx, "withLogging">>
    /\ log[j].args = <<log[i].res, Ctx>>
    /\ heap[log[i].res].props.resolve = "rCtx"
    /\ BaseOf(heap, heap[log[i].res].props.target) = User
    /\ IsInstanceOf(log[j].res, heap[log[i].res].props.target, <<Ctx, "n30">>)

\* The class c is what wrapper f made of the class parent.
MadeBy(c, f, parent) ==
  IsWrappedClass(c) /\ heap[c].cls = f /\ heap[c].val = parent

\* C14: when wrap(X, f) of a bare Constructible or resolver descriptor X is
\* wrapped again with g, g is called once, with what f returned, and the
\* Constructible under the result is what g made of what f made of the
\* Constructible under X; the result is bare when X is bare, and a resolver
\* descriptor with the resolve of X when X is a descriptor.
C14_WrapChain ==
  \A i, j \in CallsOf("wrap") :
    LET x == log[i].args[1]
        f == log[i].args[2]
        g == log[j].args[2]
        fx == Underlying(log[i].res)
        gfx == Underlying(log[j].res)
    IN  (i < j /\ IsValidClassable(x) /\ log[j].args[1] = log[i].res) =>
          /\ log[j].ok
          /\ \A k \in EventsOf("invoke", log[j].call) :
               log[k].f = g /\ log[k].args = <<fx>> /\ log[k].res = gfx
          /\ Cardinality(EventsOf("invoke", log[j].call)) = 1
          /\ MadeBy(fx, f, Underlying(x))
          /\ MadeBy(gfx, g, fx)
          /\ IsConstructible(x) => IsConstructible(log[j].res)
          /\ IsResolverDescriptor(x) =>
               /\ IsResolverDescriptor(log[j].res)
               /\ heap[log[j].res].props.resolve = heap[x].props.resolve

C14_Witness ==
  \E i, j \in CallsOf("wrap") :
    /\ log[i].args = <<User, "withLogging">>
    /\ log[j].args = <<log[i].res, "withMetrics">>
    /\ MadeBy(log[j].res, "withMetrics", log[i].res)
    /\ MadeBy(log[i].res, "withLogging", User)

\* C15: select calls nothing; a call of the function select(S) returned
\* calls S once, with exactly the arguments of that call in their order,
\* and ends as S did: it returns the very value S returned, the pair or the
\* promise of one, or throws what S threw.
C15_SelectForwards ==
  /\ \A j \in CallsOf("select") :
       /\ log[j].ok
       /\ TypeOf(heap, log[j].res) = "function"
       /\ EventsOf("invoke", log[j].call) = {}
  /\ \A j \in CallsOf("select"), i \in CallsOf("selecting") :
       log[i].args[1] = log[j].res =>
         LET invs == EventsOf("invoke", log[i].call)
         IN  /\ Cardinality(invs) = 1
             /\ \A k \in invs :
                  /\ log[k].f = log[j].args[1]
                  /\ log[k].args = Tail(log[i].args)
                  /\ EndedAs(i, k)

C15_Witness ==
  \E j \in CallsOf("select"), i \in CallsOf("selecting") :
    /\ log[j].args = <<"pickByEnv">>
    /\ log[i].args = <<log[j].res, Ctx, User, Cache>>
    /\ log[i].ok
    /\ Iterable(heap, log[i].res)
    /\ heap[log[i].res].elems[1] = Cache
    /\ Spread(heap, heap[log[i].res].elems[2]) = <<>>

\* The name of a Constructible: a declared class has its own, a class
\* expression a wrapper returned has the empty name.
ClassName(c) == IF c \in Constructibles THEN c ELSE ""

\* The record at v has exactly the two given fields with the given values.
IsPair(v, field1, value1, field2, value2) ==
  /\ IsRef(heap, v)
  /\ heap[v].kind = "record"
  /\ DOMAIN heap[v].props = {field1, field2}
  /\ heap[v].props[field1] = value1
  /\ heap[v].props[field2] = value2

\* C16 as stated: getDescriptor of a bare Constructible C returns
\* { kind: "bare", name: <name of C> } and getDescriptor of a resolver
\* descriptor R returns { kind: "resolver", name: <name of R.target> }.
C16_KindAndName ==
  \A i \in CallsOf("getDescriptor") :
    LET x == log[i].args[1]
    IN  /\ IsConstructible(x) =>
             log[i].ok /\ IsPair(log[i].res, "kind", "bare", "name", ClassName(x))
        /\ IsResolverDescriptor(x) =>
             /\ log[i].ok
             /\ IsPair(log[i].res, "kind", "resolver", "name",
                        ClassName(heap[x].props.target))

\* C16, amended: getDescriptor returns a new record with the fields type
\* and target: { type: "class", target: <name of C> } for a bare
\* Constructible C and { type: "resolver", target: <name of R.target> } for
\* a resolver descriptor R.
C16_TypeAndTarget ==
  \A i \in CallsOf("getDescriptor") :
    LET x == log[i].args[1]
    IN  /\ IsConstructible(x) =>
             log[i].ok /\ IsPair(log[i].res, "type", "class", "target", ClassName(x))
        /\ IsResolverDescriptor(x) =>
             /\ log[i].ok
             /\ log[i].res # x
             /\ IsPair(log[i].res, "type", "resolver", "target",
                        ClassName(heap[x].props.target))

C16_Witness ==
  /\ \E i \in CallsOf("getDescriptor") :
       log[i].args = <<User>> /\ IsPair(log[i].res, "type", "class", "target", "User")
  /\ \E i \in CallsOf("getDescriptor") :
       /\ log[i].args = <<userCtx>>
       /\ IsPair(log[i].res, "type", "resolver", "target", "User")

\* v is a record with a target field that classable.is accepts and a
\* resolve field that is a function.
HasResolverShape(v) ==
  /\ IsRef(heap, v)
  /\ heap[v].kind = "record"
  /\ {"target", "resolve"} \subseteq DOMAIN heap[v].props
  /\ is(heap, heap[v].props.target)
  /\ TypeOf(heap, heap[v].props.resolve) = "function"

\* A class: one that exists before the run, or one a wrapper made.
IsClass(v) == v \in Classes \/ IsWrappedClass(v)

\* C17: a call of isResolver(v) returns true when v is a record with a
\* target field that satisfies is and a resolve field that is callable,
\* and false for every other value; in particular it returns false for
\* every bare class.  This holds of every value the client can pass to its
\* next call and of every logged call.
C17_IsResolver ==
  /\ CanCall => \A v \in ClassifyInputs(heap) :
       /\ isResolverCall(Current, v) = Return(Current, Bool(HasResolverShape(v)))
       /\ IsClass(v) => isResolverCall(Current, v).val = "false"
  /\ \A i \in CallsOf("isResolver") :
       /\ log[i].ok
       /\ log[i].res = Bool(HasResolverShape(log[i].args[1]))
       /\ IsClass(log[i].args[1]) => log[i].res = "false"

C17_Witness ==
  /\ \E i \in CallsOf("isResolver") : log[i].args = <<userCtx>> /\ log[i].res = "true"
  /\ \E i \in CallsOf("isResolver") : log[i].args = <<User>> /\ log[i].res = "false"

\* The classes a caller can construct, and the abstract-only ones.
IsConcreteClass(v) == v \in NativeClasses \/ IsWrappedClass(v)
IsAbstractClass(v) == v \in AbstractClasses

\* C18: is returns true and isAbstract false for every concrete class,
\* isAbstract returns true and is false for every abstract class, and no
\* value gets true from both.
C18_MutuallyExclusive ==
  /\ \A i \in CallsOf("is") :
       /\ IsConcreteClass(log[i].args[1]) => log[i].ok /\ log[i].res = "true"
       /\ IsAbstractClass(log[i].args[1]) => log[i].ok /\ log[i].res = "false"
  /\ \A i \in CallsOf("isAbstract") :
       /\ IsConcreteClass(log[i].args[1]) => log[i].ok /\ log[i].res = "false"
       /\ IsAbstractClass(log[i].args[1]) => log[i].ok /\ log[i].res = "true"
  /\ \A i \in CallsOf("is"), j \in CallsOf("isAbstract") :
       log[i].args = log[j].args => ~(log[i].res = "true" /\ log[j].res = "true")

\* What each predicate is to recognise: is a class, isAbstract an abstract
\* class, isResolver a record that has a target and a resolve.
Recognisable(op, v) ==
  CASE op = "is" -> IsClass(v)
    [] op = "isAbstract" -> IsAbstractClass(v)
    [] OTHER -> /\ IsRef(heap, v)
                /\ heap[v].kind = "record"
                /\ {"target", "resolve"} \subseteq DOMAIN heap[v].props

Predicates == {"is", "isAbstract", "isResolver"}

\* C19: for every value, null, undefined, primitives, functions, records
\* and arrays among them, a call of is, isAbstract or isResolver returns
\* true or false, throws nothing and changes nothing, and returns false for
\* a value of a shape the predicate does not recognise; what it returns is
\* what the predicate is of that value.  This holds of every value the
\* client can pass to its next call and of every logged call.
C19_Total ==
  /\ CanCall => \A v \in ClassifyInputs(heap) :
       /\ isCall(Current, v) = Return(Current, Bool(is(heap, v)))
       /\ isAbstractCall(Current, v) = Return(Current, Bool(isAbstract(heap, v)))
       /\ isResolverCall(Current, v) = Return(Current, Bool(isResolver(heap, v)))
       /\ ~Recognisable("is", v) => ~is(heap, v)
       /\ ~Recognisable("isAbstract", v) => ~isAbstract(heap, v)
       /\ ~Recognisable("isResolver", v) => ~isResolver(heap, v)
  /\ \A i \in DOMAIN log :
       (IsCall(log[i]) /\ log[i].f \in Predicates) =>
         /\ log[i].ok
         /\ log[i].res \in {"true", "false"}
         /\ ~Recognisable(log[i].f, log[i].args[1]) => log[i].res = "false"

C19_Witness ==
  /\ \E i \in CallsOf("is") : log[i].args = <<Null>> /\ log[i].res = "false"
  /\ \E i \in CallsOf("isResolver") :
       log[i].args = <<resolveNoFunction>> /\ log[i].res = "false"

\* The events of a call that are work done for it: callbacks, constructors
\* and static methods run.
WorkOf(call) ==
  {k \in DOMAIN log : log[k].call = call /\ log[k].ev \in {"invoke", "new", "static"}}

\* C20: when the constructor of the target fails with E during a create,
\* or the chosen static method fails with E during a from, the call does
\* no more work after it (no second attempt, no other class constructed)
\* and the caller gets exactly E: thrown by the call when the failure came
\* before the call returned, and as the rejection of the promise the call
\* returned when it came in the reaction of a deferred resolve.
C20_FailuresPropagate ==
  /\ \A i \in CallsOf("create") : \A k \in EventsOf("new", log[i].call) :
       ~log[k].ok =>
         /\ \A j \in WorkOf(log[i].call) : j <= k
         /\ Cardinality(EventsOf("new", log[i].call)) = 1
         /\ k < i => ~log[i].ok /\ log[i].res = log[k].res
         /\ k > i =>
              /\ log[i].ok
              /\ InstanceOfPromise(heap, log[i].res)
              /\ heap[log[i].res].state = "rejected"
              /\ heap[log[i].res].val = log[k].res
  /\ \A i \in CallsOf("from") : \A k \in EventsOf("static", log[i].call) :
       ~log[k].ok =>
         /\ \A j \in WorkOf(log[i].call) : j <= k
         /\ k < i
         /\ ~log[i].ok
         /\ log[i].res = log[k].res

C20_Witness ==
  /\ \E i \in CallsOf("create") :
       /\ log[i].args[1] = brokenAsync
       /\ heap[log[i].res].state = "rejected"
       /\ heap[log[i].res].val = CtorError
       /\ \E k \in EventsOf("new", log[i].call) : k > i /\ ~log[k].ok
  /\ \E i \in CallsOf("from") :
       log[i].args[1] = brokenMake /\ ~log[i].ok /\ log[i].res = ErrE

\* The values of no recognised Classable shape: neither isResolver nor is
\* accepts them.
Unrecognised(v) == ~is(heap, v) /\ ~isResolver(heap, v)

\* C21 as stated: create on a value of no recognised shape calls no
\* resolve, fails with a construction error and returns no instance.
C21_UnrecognisedFails ==
  \A i \in CallsOf("create") :
    Unrecognised(log[i].args[1]) =>
      /\ EventsOf("invoke", log[i].call) = {}
      /\ ~log[i].ok
      /\ log[i].res = TypeError

\* C21, amended: create on a value of no recognised shape calls no resolve
\* and attempts `new value()` without arguments.  When the value is no
\* constructor (a primitive, null, undefined, a record, an array, an arrow
\* function) the call throws a TypeError and no constructor runs; when it is
\* a constructor all the same (a function declaration, a class whose text is
\* `class{`) its constructor runs once, without arguments, and the call ends
\* as the constructor did, returning the instance.
C21_UnrecognisedConstructs ==
  \A i \in CallsOf("create") :
    LET x == log[i].args[1]
        news == EventsOf("new", log[i].call)
    IN  Unrecognised(x) =>
          /\ EventsOf("invoke", log[i].call) = {}
          /\ ~IsConstructor(heap, x) =>
               news = {} /\ ~log[i].ok /\ log[i].res = TypeError
          /\ IsConstructor(heap, x) =>
               /\ Cardinality(news) = 1
               /\ \A k \in news :
                    log[k].f = x /\ log[k].args = <<>> /\ EndedAs(i, k)
               /\ log[i].ok => IsInstanceOf(log[i].res, x, <<>>)

C21_Witness ==
  /\ \E i \in CallsOf("create") :
       log[i].args[1] = targetNoClass /\ ~log[i].ok /\ log[i].res = TypeError
  /\ \E i \in CallsOf("create") :
       log[i].args[1] = Legacy /\ log[i].ok /\ IsInstanceOf(log[i].res, Legacy, <<>>)


\* The calls of from whose selector returned a promise.
DeferredSelections ==
  {i \in CallsOf("from") : \E p \in ResolveReturned(i) : InstanceOfPromise(heap, p)}

\* C22 as stated: when the selector of a static-factory definition returns
\* a deferred value, from awaits it, so the call returns normally with a
\* deferred result and nothing has been thrown at the caller.
C22_AwaitsSelector ==
  \A i \in DeferredSelections :
     log[i].ok /\ InstanceOfPromise(heap, log[i].res)

\* C22 amended: from does not await a deferred selector.  It destructures
\* the promise itself, finds neither method nor args, and throws a
\* TypeError at the caller at once: no static method is invoked, nothing is
\* constructed and nothing waits for the selector's promise.
C22_NoAwait ==
  \A i \in DeferredSelections :
     /\ ~log[i].ok
     /\ log[i].res = TypeError
     /\ EventsOf("static", log[i].call) = {}
     /\ EventsOf("new", log[i].call) = {}
     /\ \A p \in ResolveReturned(i) :
          /\ \A k \in DOMAIN reactions : reactions[k].src # p
          /\ \A k \in DOMAIN jobs : jobs[k].src # p

\* A call of from on the definition with the async selector has thrown.
C22_Witness ==
  \E i \in DeferredSelections :
     /\ log[i].args[1] = cacheAsync
     /\ ~log[i].ok
     /\ \E k \in EventsOf("invoke", log[i].call) : log[k].f = "selAsync"

\* The runtime a call was given, as the callback is to receive it.
Forwarded(i) ==
  IF Len(log[i].args) = 2 /\ log[i].args[2] # Undefined
    THEN <<log[i].args[2]>>
    ELSE <<>>

\* C25: of several deferred creates pending together, each invokes its
\* resolve with its own runtime only, constructs only its own target with
\* the arguments its own resolve resolved to, and fulfils its own result
\* with that instance, in whatever order the resolves complete; no two
\* calls share an instance.
C25_NoSharedState ==
  \A i \in DeferredCreates :
     LET call == log[i].call
         target == Get(heap, log[i].args[1], "target")
     IN  /\ \A k \in EventsOf("invoke", call) : log[k].args = Forwarded(i)
         /\ \A k \in EventsOf("new", call) :
              /\ log[k].f = target
              /\ \E p \in ResolveReturned(i) :
                   /\ heap[p].state = "fulfilled"
                   /\ log[k].args = Spread(heap, heap[p].val)
                   /\ log[k].args = Forwarded(i)
         /\ (log[i].ok /\ heap[log[i].res].state = "fulfilled")
              => /\ IsInstanceOf(heap[log[i].res].val, target, Forwarded(i))
                 /\ \A j \in DeferredCreates \ {i} :
                      log[j].ok => heap[log[j].res].val # heap[log[i].res].val

\* Two deferred creates on different targets with different runtimes were
\* pending together, the later one's resolve completed first, and each
\* yielded an instance of its own target with its own runtime.
C25_Witness ==
  \E i, j \in DeferredCreates :
     /\ i < j
     /\ log[i].args = <<userEcho, Ctx>>
     /\ log[j].args = <<cacheEcho, "n0">>
     /\ \E pi \in ResolveReturned(i), pj \in ResolveReturned(j) :
          \E si, sj \in DOMAIN log :
             /\ log[si].ev = "settle" /\ log[si].f = pi
             /\ log[sj].ev = "settle" /\ log[sj].f = pj
             /\ j < sj /\ sj < si
     /\ heap[log[i].res].state = "fulfilled"
     /\ heap[log[j].res].state = "fulfilled"
     /\ IsInstanceOf(heap[log[i].res].val, User, <<Ctx>>)
     /\ IsInstanceOf(heap[log[j].res].val, Cache, <<"n0">>)

\* C27: create and from treat a runtime of undefined as a runtime left
\* out, calling resolve or selector without arguments; every other runtime,
\* null, false, 0 and "" included, is the single argument of the callback.
C27_OnlyUndefinedAbsent ==
  \A i \in CallsOf("create") \cup CallsOf("from") :
     /\ Cardinality(EventsOf("invoke", log[i].call)) = 1
     /\ \A k \in EventsOf("invoke", log[i].call) : log[k].args = Forwarded(i)

\* create was called with an explicit undefined and its resolve got no
\* argument, and from was called with a falsy runtime that its selector
\* got as its argument.
C27_Witness ==
  /\ \E i \in CallsOf("create") :
       /\ Len(log[i].args) = 2 /\ log[i].args[2] = Undefined
       /\ \E k \in EventsOf("invoke", log[i].call) : log[k].args = <<>>
  /\ \E i \in CallsOf("from") :
       /\ Len(log[i].args) = 2 /\ log[i].args[2] \in {Null, "false", "n0", ""}
       /\ \E k \in EventsOf("invoke", log[i].call) : log[k].args = <<log[i].args[2]>>


\* C23: Placeholder is no singleton.  Every create on placeholder and every
\* from on placeholderInstance returns a new instance of Placeholder, one
\* that no earlier call returned and that did not exist before the call.
C23_FreshPlaceholder ==
  \A i \in DOMAIN log :
     (IsCall(log[i]) /\ log[i].f \in {"create", "from"}
        /\ log[i].args[1] \in {placeholder, placeholderInstance})
       => /\ log[i].ok
          /\ IsInstanceOf(log[i].res, Placeholder, <<>>)
          /\ \E k \in EventsOf("new", log[i].call) : log[k].res = log[i].res
          /\ \A j \in DOMAIN log :
               (j < i /\ log[j].call # log[i].call) => log[j].res # log[i].res

\* create on placeholder and from on placeholderInstance have each
\* returned an instance, and the two differ.
C23_Witness ==
  \E i, j \in DOMAIN log :
     /\ IsCall(log[i]) /\ log[i].f = "create" /\ log[i].args[1] = placeholder
     /\ IsCall(log[j]) /\ log[j].f = "from" /\ log[j].args[1] = placeholderInstance
     /\ IsInstanceOf(log[i].res, Placeholder, <<>>)
     /\ IsInstanceOf(log[j].res, Placeholder, <<>>)
     /\ log[i].res # log[j].res

\* C24: no step of any operation changes an object that exists: classes,
\* descriptors, definitions, functions, argument lists and instances stay
\* as they were made.  (Only a promise changes, once, when it settles.)
C24_NeverMutated ==
  [][\A a \in DOMAIN heap :
       /\ a \in DOMAIN heap'
       /\ heap[a].kind # "promise" => heap'[a] = heap[a]]_vars

\* withResolve and wrap were called on the descriptor userCtx, which is as
\* it was, and what they returned are other records.
C24_Witness ==
  /\ heap[userCtx] = InitialHeap[userCtx]
  /\ \E i \in CallsOf("withResolve"), j \in CallsOf("wrap") :
       /\ log[i].args = <<userCtx, "rEmpty">>
       /\ log[j].args[1] = userCtx
       /\ log[i].ok /\ log[j].ok
       /\ log[i].res # userCtx /\ log[j].res # userCtx
       /\ log[i].res # log[j].res

\* The resolve and selector functions of the records there are.
ResolveFunctions ==
  {heap[a].props.resolve : a \in RecordsWith(heap, "resolve")}
    \cup {heap[a].props.selector : a \in RecordsWith(heap, "selector")}

\* The invocations of a resolve or selector function.
ResolveInvocations ==
  {k \in DOMAIN log : log[k].ev = "invoke" /\ log[k].f \in ResolveFunctions}

\* The operations that inspect or derive.
PassiveOps ==
  {"isResolver", "toResolver", "getTarget", "withResolve", "wrap", "getDescriptor",
   "select"}

\* C26: isResolver, toResolver, getTarget, withResolve, wrap, getDescriptor
\* and select invoke no resolve or selector function and construct no
\* instance; resolve is invoked by create on a resolver descriptor only,
\* once a call, so there are as many resolve invocations as such calls.
C26_OnlyCreateInvokes ==
  \A invocations \in {ResolveInvocations} :
     /\ \A i \in DOMAIN log :
          (IsCall(log[i]) /\ log[i].f \in PassiveOps)
            => /\ \A k \in invocations : log[k].call # log[i].call
               /\ EventsOf("new", log[i].call) = {}
               /\ EventsOf("static", log[i].call) = {}
               /\ ~(log[i].ok /\ IsRef(heap, log[i].res)
                      /\ heap[log[i].res].kind = "instance")
     /\ Cardinality({k \in invocations :
                       \E i \in CallsOf("create") : log[i].call = log[k].call})
          = Cardinality(DescriptorCreates)
     /\ \A k \in invocations :
          \E i \in CallsOf("create") \cup CallsOf("from") : log[i].call = log[k].call

\* wrap derived a descriptor from userCtx, calling its wrapper and not the
\* resolve, and create on what it returned invoked that resolve, once.
C26_Witness ==
  \E i \in CallsOf("wrap"), j \in DescriptorCreates :
     /\ log[i].args[1] = userCtx
     /\ log[i].ok
     /\ \E k \in EventsOf("invoke", log[i].call) : log[k].f \in WrapperInputs
     /\ log[j].args[1] = log[i].res
     /\ Cardinality(ResolveInvocations) = 1
     /\ \E k \in ResolveInvocations : log[k].call = log[j].call /\ log[k].f = "rCtx"

====
